---- MODULE Spec2Model ----
(***************************************************************************)
(* The dynamic field store of prost-reflect                                *)
(* (src/prost-reflect/src/dynamic/fields.rs): a BTreeMap from field number *)
(* to ValueOrUnknown, driven through has / get / get_mut / set / clear /   *)
(* add_unknown / iter / clear_all with descriptors of a small schema.      *)
(***************************************************************************)
EXTENDS Integers, Sequences, FiniteSets, TLC

(* ---------------------------- bounds ----------------------------------- *)

\* how far around each range limit the checked seconds and nanos are drawn
Radius == 1

\* largest i32 payload a Value carries in the model
MaxValue == 1

\* cap on the raw unknown entries the store holds in total
MaxUnknowns == 2

(* ---------------------------- values ----------------------------------- *)

None == "None"

\* Option<T> is the set of at most one T
Some(x) == {x}

Unwrap(o) == CHOOSE x \in o : TRUE

I32(k) == [kind |-> "I32", val |-> k]

\* a value of another kind: not valid for an i32 field
BoolValue == [kind |-> "Bool", val |-> 0]

Values == {I32(k) : k \in 0..MaxValue} \cup {BoolValue}

\* raw wire entries handed over by the decoder; the store never looks inside
UnknownFields == {"a", "b"}

(* -------------------------- descriptors -------------------------------- *)
\* One message type: a oneof G with two members (explicit presence), a
\* proto3 singular field (implicit presence) and an extension.

F1 == [name |-> "F1", number |-> 1, kind |-> "I32", default |-> I32(0),
       supports_presence |-> TRUE, oneof |-> "G", extension |-> FALSE]

F2 == [name |-> "F2", number |-> 2, kind |-> "I32", default |-> I32(1),
       supports_presence |-> TRUE, oneof |-> "G", extension |-> FALSE]

F3 == [name |-> "F3", number |-> 3, kind |-> "I32", default |-> I32(0),
       supports_presence |-> FALSE, oneof |-> None, extension |-> FALSE]

E4 == [name |-> "E4", number |-> 4, kind |-> "I32", default |-> I32(1),
       supports_presence |-> TRUE, oneof |-> None, extension |-> TRUE]

Descriptors == {F1, F2, F3, E4}

Numbers == {d.number : d \in Descriptors}

\* OneofDescriptorRef::fields(), in declaration order
OneofFields(g) == IF g = "G" THEN <<F1, F2>> ELSE <<>>

\* the message type the store belongs to, and an older revision of it that
\* declares neither F3 nor the extension
Message == [name |-> "Message", fields |-> {F1, F2, F3}, extensions |-> {E4}]

OldMessage == [name |-> "OldMessage", fields |-> {F1, F2}, extensions |-> {}]

Messages == {Message, OldMessage}

get_field(message, number) == {d \in message.fields : d.number = number}

get_extension(message, number) == {d \in message.extensions : d.number = number}

(* ----------------------- FieldDescriptorLike --------------------------- *)

number(desc) == desc.number

default_value(desc) == desc.default

is_default_value(desc, value) == value = desc.default

is_valid(desc, value) == value.kind = desc.kind

\* an extension is never part of a oneof
containing_oneof(desc) ==
    IF desc.extension \/ desc.oneof = None THEN {} ELSE Some(desc.oneof)

supports_presence(desc) == desc.supports_presence

\* the presence rule with the two conditions conjoined
desc_has_and(desc, value) == supports_presence(desc) /\ ~is_default_value(desc, value)

desc_has(desc, value) == supports_presence(desc) \/ ~is_default_value(desc, value)

(* -------------------------- ValueOrUnknown ----------------------------- *)

Value(value) == [tag |-> "Value", value |-> Some(value), unknowns |-> <<>>]

Unknown(unknowns) == [tag |-> "Unknown", value |-> {}, unknowns |-> unknowns]

IsValue(entry) == entry.tag = "Value"

IsUnknown(entry) == entry.tag = "Unknown"

(* ------------------------------ BTreeMap ------------------------------- *)
\* fields: BTreeMap<u32, ValueOrUnknown> is a function whose domain is the
\* set of keys present

EmptyMap == [n \in {} |-> Unknown(<<>>)]

Insert(f, k, e) == [n \in (DOMAIN f) \cup {k} |-> IF n = k THEN e ELSE f[n]]

Remove(f, k) == [n \in (DOMAIN f) \ {k} |-> f[n]]

Min(S) == CHOOSE x \in S : \A y \in S : x <= y

RECURSIVE Ascending(_)
\* the keys in the order BTreeMap::iter visits them
Ascending(S) == IF S = {} THEN <<>> ELSE <<Min(S)>> \o Ascending(S \ {Min(S)})

(* ----------------------- DynamicMessageFieldSet ------------------------ *)

get_value(f, n) ==
    IF n \in DOMAIN f /\ IsValue(f[n]) THEN f[n].value ELSE {}

\* has that only asks whether a decoded entry is there
has_entry(f, desc) == get_value(f, number(desc)) # {}

has(f, desc) ==
    LET value == get_value(f, number(desc))
    IN  IF value = {} THEN FALSE ELSE desc_has(desc, Unwrap(value))

get(f, desc) ==
    LET value == get_value(f, number(desc))
    IN  IF value = {} THEN default_value(desc) ELSE Unwrap(value)

\* clear that resets the entry to the default instead of removing it
clear_reset(f, desc) ==
    IF number(desc) \in DOMAIN f
    THEN Insert(f, number(desc), Value(default_value(desc)))
    ELSE f

\* clear that drops raw unknown entries only
clear_unknown_only(f, desc) ==
    IF number(desc) \in DOMAIN f /\ IsUnknown(f[number(desc)])
    THEN Remove(f, number(desc))
    ELSE f

\* clear that empties the whole map
clear_everything(f, desc) == EmptyMap

clear(f, desc) == Remove(f, number(desc))

RECURSIVE clear_oneof_loop_self(_, _, _)
\* the loop with the comparison inverted: clears the written field itself
clear_oneof_loop_self(f, desc, oneof_fields) ==
    IF oneof_fields = <<>> THEN f
    ELSE LET oneof_field == Head(oneof_fields)
             g == IF number(oneof_field) = number(desc) THEN Remove(f, number(oneof_field)) ELSE f
         IN  clear_oneof_loop_self(g, desc, Tail(oneof_fields))

RECURSIVE clear_oneof_loop_all(_, _, _)
\* the loop without the comparison: clears every member of the oneof
clear_oneof_loop_all(f, desc, oneof_fields) ==
    IF oneof_fields = <<>> THEN f
    ELSE clear_oneof_loop_all(Remove(f, number(Head(oneof_fields))), desc,
                              Tail(oneof_fields))

RECURSIVE clear_oneof_loop(_, _, _)
\* the for loop over oneof_desc.fields()
clear_oneof_loop(f, desc, oneof_fields) ==
    IF oneof_fields = <<>> THEN f
    ELSE LET oneof_field == Head(oneof_fields)
             g == IF number(oneof_field) # number(desc) THEN clear(f, oneof_field) ELSE f
         IN  clear_oneof_loop(g, desc, Tail(oneof_fields))

clear_oneof_fields(f, desc) ==
    IF containing_oneof(desc) = {} THEN f
    ELSE clear_oneof_loop(f, desc, OneofFields(Unwrap(containing_oneof(desc))))

unwrap_value_mut(entry) == Unwrap(entry.value)

\* get_mut that drops a raw unknown entry without putting the default in
get_mut_drop(f, desc) ==
    LET g == clear_oneof_fields(f, desc)
        n == number(desc)
    IN  IF n \in DOMAIN g /\ IsValue(g[n])
        THEN [fields |-> g, slot |-> unwrap_value_mut(g[n])]
        ELSE IF n \in DOMAIN g
        THEN [fields |-> Remove(g, n), slot |-> default_value(desc)]
        ELSE [fields |-> Insert(g, n, Value(default_value(desc))),
              slot |-> default_value(desc)]

\* get_mut that always starts the slot from the default
get_mut_reset(f, desc) ==
    LET g == clear_oneof_fields(f, desc)
        h == Insert(g, number(desc), Value(default_value(desc)))
    IN  [fields |-> h, slot |-> unwrap_value_mut(h[number(desc)])]

\* result: the store afterwards and the content of the returned slot
get_mut(f, desc) ==
    LET g == clear_oneof_fields(f, desc)
        n == number(desc)
        h == IF n \in DOMAIN g /\ IsValue(g[n]) THEN g
             ELSE Insert(g, n, Value(default_value(desc)))
    IN  [fields |-> h, slot |-> unwrap_value_mut(h[n])]

\* set through entry().or_insert: an occupied slot keeps what it holds
set_or_insert(f, desc, value) ==
    LET g == clear_oneof_fields(f, desc)
    IN  IF number(desc) \in DOMAIN g THEN g ELSE Insert(g, number(desc), Value(value))

\* set that stores nothing for a value has would not report
set_skip_default(f, desc, value) ==
    LET g == clear_oneof_fields(f, desc)
    IN  IF desc_has(desc, value) THEN Insert(g, number(desc), Value(value))
        ELSE Remove(g, number(desc))

\* set without the sibling clearing
set_no_clear(f, desc, value) == Insert(f, number(desc), Value(value))

set(f, desc, value) ==
    Insert(clear_oneof_fields(f, desc), number(desc), Value(value))

\* add_unknown that pushes the new entry in front of the list
add_unknown_front(f, n, unknown) ==
    IF n \in DOMAIN f
    THEN IF IsValue(f[n])
         THEN [fields |-> f, panicked |-> TRUE]
         ELSE [fields |-> Insert(f, n, Unknown(<<unknown>> \o f[n].unknowns)),
               panicked |-> FALSE]
    ELSE [fields |-> Insert(f, n, Unknown(<<unknown>>)), panicked |-> FALSE]

\* add_unknown that replaces a decoded entry instead of panicking
add_unknown_replace(f, n, unknown) ==
    IF n \in DOMAIN f /\ IsUnknown(f[n])
    THEN [fields |-> Insert(f, n, Unknown(Append(f[n].unknowns, unknown))),
          panicked |-> FALSE]
    ELSE [fields |-> Insert(f, n, Unknown(<<unknown>>)), panicked |-> FALSE]

\* result: the store afterwards and whether the call panicked
add_unknown(f, n, unknown) ==
    IF n \in DOMAIN f
    THEN IF IsValue(f[n])
         THEN [fields |-> f, panicked |-> TRUE]
         ELSE [fields |-> Insert(f, n, Unknown(Append(f[n].unknowns, unknown))),
               panicked |-> FALSE]
    ELSE [fields |-> Insert(f, n, Unknown(<<unknown>>)), panicked |-> FALSE]

clear_all(f) == EmptyMap

(* ------------------------------- iter ---------------------------------- *)

FieldItem(value, desc) ==
    [tag |-> "Field", number |-> number(desc), value |-> Some(value),
     desc |-> Some(desc), unknowns |-> <<>>]

ExtensionItem(value, desc) ==
    [tag |-> "Extension", number |-> number(desc), value |-> Some(value),
     desc |-> Some(desc), unknowns |-> <<>>]

UnknownItem(n, unknowns) ==
    [tag |-> "Unknown", number |-> n, value |-> {}, desc |-> {}, unknowns |-> unknowns]

\* the closure without the presence filter: every decoded value is yielded
iter_filter_map_all(message, n, entry) ==
    IF IsValue(entry)
    THEN LET value == Unwrap(entry.value)
             field == get_field(message, n)
             extension == get_extension(message, n)
         IN  IF field # {}
             THEN [item |-> Some(FieldItem(value, Unwrap(field))), panicked |-> FALSE]
             ELSE IF extension # {}
             THEN [item |-> Some(ExtensionItem(value, Unwrap(extension))),
                   panicked |-> FALSE]
             ELSE [item |-> {}, panicked |-> TRUE]
    ELSE [item |-> Some(UnknownItem(n, entry.unknowns)), panicked |-> FALSE]

\* the closure skipping a decoded value it finds no descriptor for
iter_filter_map_skip(message, n, entry) ==
    IF IsValue(entry)
    THEN LET value == Unwrap(entry.value)
             field == get_field(message, n)
             extension == get_extension(message, n)
         IN  IF field # {}
             THEN [item |-> IF desc_has(Unwrap(field), value)
                            THEN Some(FieldItem(value, Unwrap(field))) ELSE {},
                   panicked |-> FALSE]
             ELSE IF extension # {}
             THEN [item |-> IF desc_has(Unwrap(extension), value)
                            THEN Some(ExtensionItem(value, Unwrap(extension))) ELSE {},
                   panicked |-> FALSE]
             ELSE [item |-> {}, panicked |-> FALSE]
    ELSE [item |-> Some(UnknownItem(n, entry.unknowns)), panicked |-> FALSE]

\* the filter_map closure on one (number, value) pair:
\* the item it yields, if any, and whether it panicked
iter_filter_map(message, n, entry) ==
    IF IsValue(entry)
    THEN LET value == Unwrap(entry.value)
             field == get_field(message, n)
             extension == get_extension(message, n)
         IN  IF field # {}
             THEN [item |-> IF desc_has(Unwrap(field), value)
                            THEN Some(FieldItem(value, Unwrap(field))) ELSE {},
                   panicked |-> FALSE]
             ELSE IF extension # {}
             THEN [item |-> IF desc_has(Unwrap(extension), value)
                            THEN Some(ExtensionItem(value, Unwrap(extension))) ELSE {},
                   panicked |-> FALSE]
             ELSE [item |-> {}, panicked |-> TRUE]
    ELSE [item |-> Some(UnknownItem(n, entry.unknowns)), panicked |-> FALSE]

RECURSIVE iter_from(_, _, _)
\* drains the iterator over the remaining keys: the items yielded until the
\* end or the first panic
iter_from(f, message, keys) ==
    IF keys = <<>> THEN [items |-> <<>>, panicked |-> FALSE]
    ELSE LET r == iter_filter_map(message, Head(keys), f[Head(keys)])
         IN  IF r.panicked THEN [items |-> <<>>, panicked |-> TRUE]
             ELSE LET rest == iter_from(f, message, Tail(keys))
                  IN  [items |-> (IF r.item = {} THEN <<>> ELSE <<Unwrap(r.item)>>)
                                 \o rest.items,
                       panicked |-> rest.panicked]

iter(f, message) == iter_from(f, message, Ascending(DOMAIN f))

(* ----------------------- 64-bit and 32-bit integers -------------------- *)
\* An integer is a sign and a magnitude; the magnitude is four base-10^6
\* digits, most significant first, so that every i64 and u64 the checks meet
\* is represented exactly.

Pos(mag) == [neg |-> FALSE, mag |-> mag]

Neg(mag) == [neg |-> TRUE, mag |-> mag]

Zero == Pos(<<0, 0, 0, 0>>)

\* u64 / u32 comparison
MagLess(x, y) ==
    \E i \in 1..4 : x[i] < y[i] /\ \A j \in 1..(i - 1) : x[j] = y[j]

\* i64 / i32 comparison
Less(x, y) ==
    IF x.neg # y.neg THEN x.neg
    ELSE IF x.neg THEN MagLess(y.mag, x.mag)
    ELSE MagLess(x.mag, y.mag)

\* i64::unsigned_abs / i32::unsigned_abs: the magnitude, which always fits
\* the unsigned type of the same width
unsigned_abs(x) == x.mag

I64_MIN == Neg(<<9, 223372, 36854, 775808>>)

I64_MAX == Pos(<<9, 223372, 36854, 775807>>)

I32_MIN == Neg(<<0, 0, 2147, 483648>>)

I32_MAX == Pos(<<0, 0, 2147, 483647>>)

(* ------------------------- dynamic/serde/mod.rs ------------------------ *)

MAX_DURATION_SECONDS == <<0, 0, 315576, 0>>

MAX_DURATION_NANOS == <<0, 0, 999, 999999>>

MIN_TIMESTAMP_SECONDS == Neg(<<0, 0, 62135, 596800>>)

MAX_TIMESTAMP_SECONDS == Pos(<<0, 0, 253402, 300799>>)

Ok == "Ok"

\* check_duration comparing the signed fields themselves
check_duration_signed(d) ==
    IF \/ Less(Pos(MAX_DURATION_SECONDS), d.seconds)
       \/ Less(Pos(MAX_DURATION_NANOS), d.nanos)
    THEN "duration out of range"
    ELSE Ok

check_duration(d) ==
    IF \/ MagLess(MAX_DURATION_SECONDS, unsigned_abs(d.seconds))
       \/ MagLess(MAX_DURATION_NANOS, unsigned_abs(d.nanos))
    THEN "duration out of range"
    ELSE Ok

\* check_timestamp with the two bounds excluded
check_timestamp_exclusive(t) ==
    IF \/ ~Less(MIN_TIMESTAMP_SECONDS, t.seconds)
       \/ ~Less(t.seconds, MAX_TIMESTAMP_SECONDS)
    THEN "timestamp out of range"
    ELSE Ok

check_timestamp(t) ==
    IF \/ Less(t.seconds, MIN_TIMESTAMP_SECONDS)
       \/ Less(MAX_TIMESTAMP_SECONDS, t.seconds)
    THEN "timestamp out of range"
    ELSE Ok

DeserializeOptions_new == [deny_unknown_fields |-> TRUE]

deny_unknown_fields(self, yes) == [self EXCEPT !.deny_unknown_fields = yes]

DeserializeOptions_default == DeserializeOptions_new

SerializeOptions_new ==
    [stringify_64_bit_integers |-> TRUE,
     use_enum_numbers |-> FALSE,
     use_proto_field_name |-> FALSE,
     skip_default_fields |-> TRUE]

stringify_64_bit_integers(self, yes) == [self EXCEPT !.stringify_64_bit_integers = yes]

use_enum_numbers(self, yes) == [self EXCEPT !.use_enum_numbers = yes]

\* use_proto_field_name writing the switch of the setter above it
use_proto_field_name_enum(self, yes) == [self EXCEPT !.use_enum_numbers = yes]

use_proto_field_name(self, yes) == [self EXCEPT !.use_proto_field_name = yes]

skip_default_fields(self, yes) == [self EXCEPT !.skip_default_fields = yes]

SerializeOptions_default == SerializeOptions_new

(* ------------------------------ state ---------------------------------- *)

VARIABLES
    fields,            \* DynamicMessageFieldSet.fields
    pre,               \* the store as it was when the last call began
    call,              \* the last call and its arguments
    ret,               \* what the last call returned
    panicked,          \* the last call panicked: the program is over
    debug_assertions,  \* the build checks debug_assert!
    duration,          \* the prost_types::Duration handed to check_duration
    timestamp,         \* the prost_types::Timestamp handed to check_timestamp
    checked,           \* what the range check returned
    serialize_options,     \* the SerializeOptions being built
    deserialize_options,   \* the DeserializeOptions being built
    options_pre,       \* both option values as the last builder call found them
    options_call,      \* the last builder call and its argument
    last_yes           \* per switch, the argument of the last setter called for it

store_vars == <<fields, pre, call, ret, panicked, debug_assertions>>

serde_vars == <<duration, timestamp, checked, serialize_options, deserialize_options,
                options_pre, options_call, last_yes>>

vars == <<fields, pre, call, ret, panicked, debug_assertions,
          duration, timestamp, checked, serialize_options, deserialize_options,
          options_pre, options_call, last_yes>>

\* no range check has run
NoCheck ==
    /\ duration = [seconds |-> Zero, nanos |-> Zero]
    /\ timestamp = [seconds |-> Zero, nanos |-> Zero]
    /\ checked = "unchecked"

\* the documented defaults of the five switches
DefaultSwitches ==
    [stringify_64_bit_integers |-> TRUE,
     use_enum_numbers |-> FALSE,
     use_proto_field_name |-> FALSE,
     skip_default_fields |-> TRUE,
     deny_unknown_fields |-> TRUE]

OptionsCall(op, yes) == [op |-> op, yes |-> yes]

\* SerializeOptions::new() and DeserializeOptions::new()
NewOptions ==
    /\ serialize_options = SerializeOptions_new
    /\ deserialize_options = DeserializeOptions_new
    /\ options_pre = [ser |-> SerializeOptions_new, de |-> DeserializeOptions_new]
    /\ options_call = OptionsCall("new", TRUE)
    /\ last_yes = DefaultSwitches

NoRet == [bool |-> FALSE, value |-> {}, items |-> <<>>]

RetBool(b) == [bool |-> b, value |-> {}, items |-> <<>>]

RetValue(v) == [bool |-> FALSE, value |-> Some(v), items |-> <<>>]

RetItems(items) == [bool |-> FALSE, value |-> {}, items |-> items]

Call(op, desc, value, n, unknown, message) ==
    [op |-> op, desc |-> desc, value |-> value, number |-> n,
     unknown |-> unknown, message |-> message]

DescCall(op, desc) == Call(op, Some(desc), {}, number(desc), None, None)

RECURSIVE CountUnknowns(_, _)
CountUnknowns(f, keys) ==
    IF keys = {} THEN 0
    ELSE LET k == CHOOSE k \in keys : TRUE
         IN  Len(f[k].unknowns) + CountUnknowns(f, keys \ {k})

TotalUnknowns(f) == CountUnknowns(f, DOMAIN f)

\* DynamicMessageFieldSet::default()
Init ==
    /\ fields = EmptyMap
    /\ pre = EmptyMap
    /\ call = Call("new", {}, {}, 0, None, None)
    /\ ret = NoRet
    /\ panicked = FALSE
    /\ debug_assertions \in BOOLEAN
    /\ NoCheck
    /\ NewOptions

(* ----------------------------- actions --------------------------------- *)

Has ==
    \E desc \in Descriptors :
        /\ ~panicked
        /\ call' = DescCall("has", desc)
        /\ ret' = RetBool(has(fields, desc))
        /\ pre' = fields
        /\ UNCHANGED serde_vars
        /\ UNCHANGED <<fields, panicked, debug_assertions>>

\* get that materialises the default in the store, as get_mut does
GetMaterialising ==
    \E desc \in Descriptors :
        /\ ~panicked
        /\ call' = DescCall("get", desc)
        /\ fields' = get_mut(fields, desc).fields
        /\ ret' = RetValue(get(fields, desc))
        /\ pre' = fields
        /\ UNCHANGED serde_vars
        /\ UNCHANGED <<panicked, debug_assertions>>

Get ==
    \E desc \in Descriptors :
        /\ ~panicked
        /\ call' = DescCall("get", desc)
        /\ ret' = RetValue(get(fields, desc))
        /\ pre' = fields
        /\ UNCHANGED serde_vars
        /\ UNCHANGED <<fields, panicked, debug_assertions>>

GetMut ==
    \E desc \in Descriptors :
        /\ ~panicked
        /\ call' = DescCall("get_mut", desc)
        /\ fields' = get_mut(fields, desc).fields
        /\ ret' = RetValue(get_mut(fields, desc).slot)
        /\ pre' = fields
        /\ UNCHANGED serde_vars
        /\ UNCHANGED <<panicked, debug_assertions>>

\* debug_assert!(desc.is_valid(&value)) stops a debug build before any write
Set ==
    \E desc \in Descriptors, value \in Values :
        /\ ~panicked
        /\ call' = Call("set", Some(desc), Some(value), number(desc), None, None)
        /\ ret' = NoRet
        /\ pre' = fields
        /\ UNCHANGED serde_vars
        /\ IF debug_assertions /\ ~is_valid(desc, value)
           THEN panicked' = TRUE /\ fields' = fields
           ELSE panicked' = FALSE /\ fields' = set(fields, desc, value)
        /\ UNCHANGED debug_assertions

Clear ==
    \E desc \in Descriptors :
        /\ ~panicked
        /\ call' = DescCall("clear", desc)
        /\ fields' = clear(fields, desc)
        /\ ret' = NoRet
        /\ pre' = fields
        /\ UNCHANGED serde_vars
        /\ UNCHANGED <<panicked, debug_assertions>>

AddUnknown ==
    \E n \in Numbers, unknown \in UnknownFields :
        /\ ~panicked
        /\ TotalUnknowns(fields) < MaxUnknowns
        /\ call' = Call("add_unknown", {}, {}, n, unknown, None)
        /\ fields' = add_unknown(fields, n, unknown).fields
        /\ panicked' = add_unknown(fields, n, unknown).panicked
        /\ ret' = NoRet
        /\ pre' = fields
        /\ UNCHANGED serde_vars
        /\ UNCHANGED debug_assertions

\* the iterator is drained by the caller
Iter ==
    \E message \in Messages :
        /\ ~panicked
        /\ call' = Call("iter", {}, {}, 0, None, message.name)
        /\ ret' = RetItems(iter(fields, message).items)
        /\ panicked' = iter(fields, message).panicked
        /\ pre' = fields
        /\ UNCHANGED serde_vars
        /\ UNCHANGED <<fields, debug_assertions>>

ClearAll ==
    /\ ~panicked
    /\ call' = Call("clear_all", {}, {}, 0, None, None)
    /\ fields' = clear_all(fields)
    /\ ret' = NoRet
    /\ pre' = fields
    /\ UNCHANGED serde_vars
    /\ UNCHANGED <<panicked, debug_assertions>>

Next ==
    \/ Has
    \/ Get
    \/ GetMut
    \/ Set
    \/ Clear
    \/ AddUnknown
    \/ Iter
    \/ ClearAll

Spec == Init /\ [][Next]_vars

(* --------------------------- range checks ------------------------------ *)

MagInc(m) ==
    IF m[4] < 999999 THEN <<m[1], m[2], m[3], m[4] + 1>>
    ELSE IF m[3] < 999999 THEN <<m[1], m[2], m[3] + 1, 0>>
    ELSE IF m[2] < 999999 THEN <<m[1], m[2] + 1, 0, 0>>
    ELSE <<m[1] + 1, 0, 0, 0>>

MagDec(m) ==
    IF m[4] > 0 THEN <<m[1], m[2], m[3], m[4] - 1>>
    ELSE IF m[3] > 0 THEN <<m[1], m[2], m[3] - 1, 999999>>
    ELSE IF m[2] > 0 THEN <<m[1], m[2] - 1, 999999, 999999>>
    ELSE <<m[1] - 1, 999999, 999999, 999999>>

Succ(x) ==
    IF ~x.neg THEN Pos(MagInc(x.mag))
    ELSE IF MagDec(x.mag) = Zero.mag THEN Zero
    ELSE Neg(MagDec(x.mag))

Pred(x) ==
    IF x.neg THEN Neg(MagInc(x.mag))
    ELSE IF x = Zero THEN Neg(MagInc(x.mag))
    ELSE Pos(MagDec(x.mag))

RECURSIVE Shift(_, _)
\* x + k
Shift(x, k) ==
    IF k = 0 THEN x
    ELSE IF k > 0 THEN Shift(Succ(x), k - 1)
    ELSE Shift(Pred(x), k + 1)

Around(x) == {Shift(x, k) : k \in (0 - Radius)..Radius}

\* i64 seconds: both ends of the type, zero and every limit the checks know
Seconds ==
    {Shift(I64_MIN, k) : k \in 0..Radius}
    \cup {Shift(I64_MAX, 0 - k) : k \in 0..Radius}
    \cup Around(Zero)
    \cup Around(Neg(MAX_DURATION_SECONDS)) \cup Around(Pos(MAX_DURATION_SECONDS))
    \cup Around(MIN_TIMESTAMP_SECONDS) \cup Around(MAX_TIMESTAMP_SECONDS)

\* i32 nanos: both ends of the type, zero and the duration limit
Nanos ==
    {Shift(I32_MIN, k) : k \in 0..Radius}
    \cup {Shift(I32_MAX, 0 - k) : k \in 0..Radius}
    \cup Around(Zero)
    \cup Around(Neg(MAX_DURATION_NANOS)) \cup Around(Pos(MAX_DURATION_NANOS))

\* the store is not used
NoStore ==
    /\ fields = EmptyMap
    /\ pre = EmptyMap
    /\ call = Call("new", {}, {}, 0, None, None)
    /\ ret = NoRet
    /\ panicked = FALSE
    /\ debug_assertions = FALSE

InitDuration ==
    /\ duration \in [seconds : Seconds, nanos : Nanos]
    /\ timestamp = [seconds |-> Zero, nanos |-> Zero]
    /\ checked = "unchecked"
    /\ NewOptions
    /\ NoStore

CheckDuration ==
    /\ checked = "unchecked"
    /\ checked' = check_duration(duration)
    /\ UNCHANGED <<duration, timestamp, serialize_options, deserialize_options,
                   options_pre, options_call, last_yes>>
    /\ UNCHANGED store_vars

NextDuration == CheckDuration

SpecDuration == InitDuration /\ [][NextDuration]_vars

InitTimestamp ==
    /\ timestamp \in [seconds : Seconds, nanos : Nanos]
    /\ duration = [seconds |-> Zero, nanos |-> Zero]
    /\ checked = "unchecked"
    /\ NewOptions
    /\ NoStore

CheckTimestamp ==
    /\ checked = "unchecked"
    /\ checked' = check_timestamp(timestamp)
    /\ UNCHANGED <<duration, timestamp, serialize_options, deserialize_options,
                   options_pre, options_call, last_yes>>
    /\ UNCHANGED store_vars

NextTimestamp == CheckTimestamp

SpecTimestamp == InitTimestamp /\ [][NextTimestamp]_vars

\* a <= x <= b
Within(x, a, b) == ~Less(x, a) /\ ~Less(b, x)

\* C13: for every i64 seconds and i32 nanos, the minimum of both types
\* included, check_duration returns Ok if and only if
\* |seconds| <= 315576000000 and |nanos| <= 999999999; 315576000000 s
\* 999999999 ns is accepted, 315576000001 s is rejected.
C13_DurationRange ==
    checked # "unchecked"
        => /\ checked = Ok <=>
                 /\ Within(duration.seconds, Neg(<<0, 0, 315576, 0>>), Pos(<<0, 0, 315576, 0>>))
                 /\ Within(duration.nanos, Neg(<<0, 0, 999, 999999>>), Pos(<<0, 0, 999, 999999>>))
           /\ checked # Ok => checked = "duration out of range"
           /\ duration = [seconds |-> Pos(<<0, 0, 315576, 0>>),
                          nanos |-> Pos(<<0, 0, 999, 999999>>)] => checked = Ok
           /\ duration.seconds = Pos(<<0, 0, 315576, 1>>) => checked # Ok
           /\ duration.seconds = I64_MIN \/ duration.nanos = I32_MIN => checked # Ok

\* the minimum of both types went through the check
C13_Witness ==
    /\ checked = "duration out of range"
    /\ duration = [seconds |-> I64_MIN, nanos |-> I32_MIN]

\* C14: for every i64 seconds, check_timestamp returns Ok if and only if
\* -62135596800 <= seconds <= 253402300799, whatever nanos is; 253402300799
\* is accepted, 253402300800 is rejected.
C14_TimestampRange ==
    checked # "unchecked"
        => /\ checked = Ok <=>
                 Within(timestamp.seconds, Neg(<<0, 0, 62135, 596800>>),
                        Pos(<<0, 0, 253402, 300799>>))
           /\ checked # Ok => checked = "timestamp out of range"
           /\ timestamp.seconds = Pos(<<0, 0, 253402, 300799>>) => checked = Ok
           /\ timestamp.seconds = Pos(<<0, 0, 253402, 300800>>) => checked # Ok

\* the largest accepted second went through the check with nanos far out of
\* any range
C14_Witness ==
    /\ checked = Ok
    /\ timestamp = [seconds |-> Pos(<<0, 0, 253402, 300799>>), nanos |-> I32_MIN]

(* ------------------------------ options -------------------------------- *)

InitOptions ==
    /\ NewOptions
    /\ NoCheck
    /\ NoStore

OptionsFrame ==
    /\ options_pre' = [ser |-> serialize_options, de |-> deserialize_options]
    /\ UNCHANGED <<duration, timestamp, checked>>
    /\ UNCHANGED store_vars

SerializeSwitches ==
    {"stringify_64_bit_integers", "use_enum_numbers", "use_proto_field_name",
     "skip_default_fields"}

\* last_yes with the switches of a fresh SerializeOptions back at their defaults
FreshSerialize ==
    [k \in DOMAIN last_yes |->
        IF k \in SerializeSwitches THEN DefaultSwitches[k] ELSE last_yes[k]]

SerializeOptionsNew ==
    /\ serialize_options' = SerializeOptions_new
    /\ options_call' = OptionsCall("SerializeOptions::new", TRUE)
    /\ last_yes' = FreshSerialize
    /\ UNCHANGED deserialize_options
    /\ OptionsFrame

SerializeOptionsDefault ==
    /\ serialize_options' = SerializeOptions_default
    /\ options_call' = OptionsCall("SerializeOptions::default", TRUE)
    /\ last_yes' = FreshSerialize
    /\ UNCHANGED deserialize_options
    /\ OptionsFrame

DeserializeOptionsNew ==
    /\ deserialize_options' = DeserializeOptions_new
    /\ options_call' = OptionsCall("DeserializeOptions::new", TRUE)
    /\ last_yes' = [last_yes EXCEPT !.deny_unknown_fields = DefaultSwitches.deny_unknown_fields]
    /\ UNCHANGED serialize_options
    /\ OptionsFrame

DeserializeOptionsDefault ==
    /\ deserialize_options' = DeserializeOptions_default
    /\ options_call' = OptionsCall("DeserializeOptions::default", TRUE)
    /\ last_yes' = [last_yes EXCEPT !.deny_unknown_fields = DefaultSwitches.deny_unknown_fields]
    /\ UNCHANGED serialize_options
    /\ OptionsFrame

DenyUnknownFields ==
    \E yes \in BOOLEAN :
        /\ deserialize_options' = deny_unknown_fields(deserialize_options, yes)
        /\ options_call' = OptionsCall("deny_unknown_fields", yes)
        /\ last_yes' = [last_yes EXCEPT !.deny_unknown_fields = yes]
        /\ UNCHANGED serialize_options
        /\ OptionsFrame

Stringify64BitIntegers ==
    \E yes \in BOOLEAN :
        /\ serialize_options' = stringify_64_bit_integers(serialize_options, yes)
        /\ options_call' = OptionsCall("stringify_64_bit_integers", yes)
        /\ last_yes' = [last_yes EXCEPT !.stringify_64_bit_integers = yes]
        /\ UNCHANGED deserialize_options
        /\ OptionsFrame

UseEnumNumbers ==
    \E yes \in BOOLEAN :
        /\ serialize_options' = use_enum_numbers(serialize_options, yes)
        /\ options_call' = OptionsCall("use_enum_numbers", yes)
        /\ last_yes' = [last_yes EXCEPT !.use_enum_numbers = yes]
        /\ UNCHANGED deserialize_options
        /\ OptionsFrame

UseProtoFieldName ==
    \E yes \in BOOLEAN :
        /\ serialize_options' = use_proto_field_name(serialize_options, yes)
        /\ options_call' = OptionsCall("use_proto_field_name", yes)
        /\ last_yes' = [last_yes EXCEPT !.use_proto_field_name = yes]
        /\ UNCHANGED deserialize_options
        /\ OptionsFrame

SkipDefaultFields ==
    \E yes \in BOOLEAN :
        /\ serialize_options' = skip_default_fields(serialize_options, yes)
        /\ options_call' = OptionsCall("skip_default_fields", yes)
        /\ last_yes' = [last_yes EXCEPT !.skip_default_fields = yes]
        /\ UNCHANGED deserialize_options
        /\ OptionsFrame

NextOptions ==
    \/ SerializeOptionsNew
    \/ SerializeOptionsDefault
    \/ DeserializeOptionsNew
    \/ DeserializeOptionsDefault
    \/ DenyUnknownFields
    \/ Stringify64BitIntegers
    \/ UseEnumNumbers
    \/ UseProtoFieldName
    \/ SkipDefaultFields

SpecOptions == InitOptions /\ [][NextOptions]_vars

\* the value of a switch in a pair of option values
Switch(ser, de, k) == IF k \in SerializeSwitches THEN ser[k] ELSE de[k]

\* C15: fresh SerializeOptions are stringify_64_bit_integers = true,
\* use_enum_numbers = false, use_proto_field_name = false,
\* skip_default_fields = true, fresh DeserializeOptions are
\* deny_unknown_fields = true, from new() and from default() alike; after any
\* builder calls every switch is the argument of the last setter called for
\* it, or its default if there was none, and a setter changes no switch but
\* its own.
C15_OptionsDefaultsAndSetters ==
    /\ options_call.op \in {"new", "SerializeOptions::new", "SerializeOptions::default"}
          => serialize_options = [stringify_64_bit_integers |-> TRUE,
                                  use_enum_numbers |-> FALSE,
                                  use_proto_field_name |-> FALSE,
                                  skip_default_fields |-> TRUE]
    /\ options_call.op \in {"new", "DeserializeOptions::new", "DeserializeOptions::default"}
          => deserialize_options = [deny_unknown_fields |-> TRUE]
    /\ \A k \in DOMAIN last_yes :
          Switch(serialize_options, deserialize_options, k) = last_yes[k]
    /\ \A k \in DOMAIN last_yes :
          options_call.op = k =>
              /\ Switch(serialize_options, deserialize_options, k) = options_call.yes
              /\ \A other \in (DOMAIN last_yes) \ {k} :
                    Switch(serialize_options, deserialize_options, other)
                        = Switch(options_pre.ser, options_pre.de, other)

\* use_proto_field_name(true) on options that had three other switches
\* moved off their defaults
C15_Witness ==
    /\ options_call = OptionsCall("use_proto_field_name", TRUE)
    /\ ~options_pre.ser.use_proto_field_name
    /\ serialize_options = [stringify_64_bit_integers |-> FALSE,
                            use_enum_numbers |-> TRUE,
                            use_proto_field_name |-> TRUE,
                            skip_default_fields |-> TRUE]
    /\ deserialize_options = [deny_unknown_fields |-> FALSE]

(* ------------------------- oneof exclusivity --------------------------- *)

Oneofs == {"G"}

Members(g) == {OneofFields(g)[i] : i \in DOMAIN OneofFields(g)}

Siblings(desc) ==
    IF containing_oneof(desc) = {} THEN {}
    ELSE {d \in Members(Unwrap(containing_oneof(desc))) : number(d) # number(desc)}

IsDecoded(f, n) == n \in DOMAIN f /\ IsValue(f[n])

IsRaw(f, n) == n \in DOMAIN f /\ IsUnknown(f[n])

Returned(op) == call.op = op /\ ~panicked

\* the descriptor the last call was given
D == Unwrap(call.desc)

\* C1: right after set(Fi, v), with Fi a member of a oneof and v valid for
\* Fi, has(Fi) is true and has(Fj) is false for every other member Fj of
\* the same oneof.
C1_SetMakesOneofExclusive ==
    (Returned("set") /\ containing_oneof(D) # {} /\ is_valid(D, Unwrap(call.value)))
        => /\ has(fields, D)
           /\ \A other \in Siblings(D) : ~has(fields, other)

\* set(F1, v) arrived while the sibling F2 was populated
C1_Witness ==
    /\ Returned("set")
    /\ D = F1
    /\ is_valid(D, Unwrap(call.value))
    /\ has(pre, F2)
    /\ has(fields, F1)

\* C2: in every reachable state each oneof has at most one member whose
\* number holds a Decoded entry.
C2_AtMostOneDecodedMember ==
    \A g \in Oneofs :
        Cardinality({d \in Members(g) : IsDecoded(fields, number(d))}) <= 1

\* a write to F2 found F1 decoded, and one decoded member is left
C2_Witness ==
    /\ call.op \in {"set", "get_mut"}
    /\ ~panicked
    /\ D = F2
    /\ IsDecoded(pre, number(F1))
    /\ {d \in Members("G") : IsDecoded(fields, number(d))} = {F2}

(* ------------------------------ presence ------------------------------ *)

\* the value of the entry at n differs from the default of desc
\* (a raw unknown entry holds no value, hence none equal to the default)
DiffersFromDefault(f, desc) == f[number(desc)].value # Some(default_value(desc))

\* C3 as stated: has(D) is true if and only if an entry exists at
\* D.number() and either D has explicit presence or the entry's value
\* differs from D's default.
C3_HasIffEntryExists ==
    call.op = "has"
        => (ret.bool <=> /\ number(D) \in DOMAIN pre
                         /\ (supports_presence(D) \/ DiffersFromDefault(pre, D)))

\* C3 (amended): has(D) is true if and only if a Decoded entry exists at
\* D.number() and either D has explicit presence or the decoded value differs
\* from D's default; with no entry, or a raw unknown one, has(D) is false.
C3_HasIffDecodedEntry ==
    call.op = "has"
        => /\ ret.bool <=> /\ IsDecoded(pre, number(D))
                           /\ (supports_presence(D) \/ DiffersFromDefault(pre, D))
           /\ number(D) \notin DOMAIN pre => ~ret.bool
           /\ IsRaw(pre, number(D)) => ~ret.bool

\* has(F3) answered true for an implicit-presence field holding a
\* non-default value
C3_Witness ==
    /\ call.op = "has"
    /\ D = F3
    /\ IsDecoded(pre, number(F3))
    /\ DiffersFromDefault(pre, F3)
    /\ ret.bool

(* ------------------------------- reads --------------------------------- *)

\* C4: has, get and iter leave the store as it was; get returns the Decoded
\* value stored at desc.number(), and the descriptor's default when there is
\* none.
C4_ReadsDoNotMutate ==
    /\ call.op \in {"has", "get", "iter"} => fields = pre
    /\ call.op = "get" =>
          ret.value = IF IsDecoded(pre, number(D)) THEN pre[number(D)].value
                      ELSE Some(default_value(D))

\* get on a number that holds raw unknown entries: the default comes back
\* and the raw entries stay
C4_Witness ==
    /\ call.op = "get"
    /\ IsRaw(fields, number(D))
    /\ ret.value = Some(default_value(D))

(* ------------------------------- clear --------------------------------- *)

\* C5: for a descriptor D with implicit presence, right after clear(D)
\* get(D) is D's default and has(D) is false, whatever the entry was.
C5_ClearResetsImplicitField ==
    (call.op = "clear" /\ ~supports_presence(D))
        => /\ get(fields, D) = default_value(D)
           /\ ~has(fields, D)

\* clear(F3) arrived while F3 held a non-default value
C5_Witness ==
    /\ call.op = "clear"
    /\ D = F3
    /\ has(pre, F3)
    /\ get(pre, F3) # default_value(F3)

(* ----------------------- raw unknown to decoded ------------------------ *)

\* C6 as stated: when the entry at n is a raw unknown list, get(D) or
\* set(D, v) with D.number() = n turns it into a Decoded entry.
C6_GetOrSetDecodes ==
    (call.op \in {"get", "set"} /\ ~panicked /\ IsRaw(pre, number(D)))
        => /\ IsDecoded(fields, number(D))
           /\ fields[number(D)].unknowns = <<>>

\* C6 (amended): when the entry at n is a raw unknown list, get_mut(D) or
\* set(D, v) with D.number() = n turns it into a Decoded entry and the raw
\* entries are gone; get(D) leaves the raw entries where they are.
C6_GetMutOrSetDecodes ==
    /\ (call.op \in {"get_mut", "set"} /\ ~panicked /\ IsRaw(pre, number(D)))
          => /\ IsDecoded(fields, number(D))
             /\ fields[number(D)].unknowns = <<>>
             /\ fields[number(D)].value =
                   IF call.op = "set" THEN call.value ELSE Some(default_value(D))
    /\ (call.op = "get" /\ IsRaw(pre, number(D))) => fields[number(D)] = pre[number(D)]

\* set landed on a number that held raw unknown entries
C6_Witness ==
    /\ Returned("set")
    /\ IsRaw(pre, number(D))
    /\ IsDecoded(fields, number(D))

\* C7: an entry that is raw unknown before a call and Decoded after it was
\* written by get_mut(D) or set(D, v) with D.number() its number; no entry
\* is both a decoded value and a raw unknown list.
C7_OnlyWritesDecode ==
    /\ \A n \in Numbers :
          (IsRaw(pre, n) /\ IsDecoded(fields, n))
              => call.op \in {"get_mut", "set"} /\ call.number = n
    /\ \A n \in DOMAIN fields :
          /\ IsValue(fields[n]) => fields[n].value # {} /\ fields[n].unknowns = <<>>
          /\ IsUnknown(fields[n]) => fields[n].value = {} /\ fields[n].unknowns # <<>>

\* get_mut replaced raw unknown entries by the default
C7_Witness ==
    /\ call.op = "get_mut"
    /\ IsRaw(pre, call.number)
    /\ IsDecoded(fields, call.number)
    /\ \E n \in Numbers \ {call.number} : IsRaw(fields, n)

(* ---------------------------- add_unknown ------------------------------ *)

RawList(f, n) == IF IsRaw(f, n) THEN f[n].unknowns ELSE <<>>

\* the last call neither appended to n nor cleared or wrote it
LeavesAlone(n) ==
    \/ call.op \in {"new", "has", "get", "iter"}
    \/ call.op = "add_unknown" /\ call.number # n
    \/ call.op = "clear" /\ call.number # n
    \/ /\ call.op \in {"set", "get_mut"}
       /\ call.number # n
       /\ \A d \in Siblings(D) : number(d) # n

\* C8: add_unknown(n, e) on a number without a Decoded entry appends e to
\* the raw list of n; calls on other numbers that do not clear n leave the
\* list as it is; iter yields n with exactly that list, in that order.
C8_UnknownsKeepInsertionOrder ==
    /\ (Returned("add_unknown") /\ ~IsDecoded(pre, call.number))
          => /\ IsRaw(fields, call.number)
             /\ fields[call.number].unknowns
                   = Append(RawList(pre, call.number), call.unknown)
    /\ \A n \in Numbers :
          (IsRaw(pre, n) /\ LeavesAlone(n)) => IsRaw(fields, n) /\ fields[n] = pre[n]
    /\ Returned("iter") =>
          \A n \in Numbers :
              IsRaw(fields, n) =>
                  /\ \E i \in DOMAIN ret.items :
                        ret.items[i] = UnknownItem(n, fields[n].unknowns)
                  /\ Cardinality({i \in DOMAIN ret.items : ret.items[i].number = n}) = 1

\* a second, different entry was appended behind the first
C8_Witness ==
    /\ Returned("add_unknown")
    /\ IsRaw(pre, call.number)
    /\ Len(fields[call.number].unknowns) = 2
    /\ fields[call.number].unknowns[1] # fields[call.number].unknowns[2]
    /\ fields[call.number].unknowns[2] = call.unknown

\* C9: add_unknown(n, e) panics exactly when a Decoded entry occupies n,
\* also when that entry is the default of an implicit-presence field (has
\* is false); with no entry or a raw unknown one at n it succeeds.
C9_AddUnknownPanicsOnDecoded ==
    call.op = "add_unknown"
        => /\ panicked <=> IsDecoded(pre, call.number)
           /\ panicked => fields = pre
           /\ ~panicked => IsRaw(fields, call.number)

\* add_unknown panicked on the hidden default entry of F3
C9_Witness ==
    /\ call.op = "add_unknown"
    /\ call.number = number(F3)
    /\ IsDecoded(pre, number(F3))
    /\ ~has(pre, F3)
    /\ panicked

(* ------------------------------ get_mut -------------------------------- *)

\* C10: for a descriptor D with explicit presence, right after get_mut(D)
\* has(D) is true, whether the entry was absent, Decoded or raw unknown.
C10_GetMutMakesPresent ==
    (call.op = "get_mut" /\ supports_presence(D)) => has(fields, D)

\* get_mut on an explicit-presence field that held raw unknown entries
C10_Witness ==
    /\ call.op = "get_mut"
    /\ supports_presence(D)
    /\ IsRaw(pre, number(D))
    /\ has(fields, D)

(* -------------------------------- iter --------------------------------- *)

\* the message descriptor the last iter was given
M == CHOOSE message \in Messages : message.name = call.message

Declared(message, n) == get_field(message, n) # {} \/ get_extension(message, n) # {}

Items == {ret.items[i] : i \in DOMAIN ret.items}

\* what a complete iteration over f with the descriptor message has to yield
ExpectedItems(f, message) ==
    {FieldItem(Unwrap(f[number(d)].value), d) :
        d \in {e \in message.fields : IsDecoded(f, number(e)) /\ has(f, e)}}
    \cup {ExtensionItem(Unwrap(f[number(d)].value), d) :
        d \in {e \in message.extensions : IsDecoded(f, number(e)) /\ has(f, e)}}
    \cup {UnknownItem(n, f[n].unknowns) : n \in {k \in DOMAIN f : IsUnknown(f[k])}}

\* C11: a complete iter(message) yields its items in strictly ascending
\* field-number order, no number twice; a Decoded entry is yielded, with its
\* field or extension descriptor, exactly when has is true for it, and every
\* raw unknown entry is yielded as (number, raw entries).
C11_IterAscendingAndFiltered ==
    Returned("iter")
        => /\ \A i, j \in DOMAIN ret.items :
                 i < j => ret.items[i].number < ret.items[j].number
           /\ Items = ExpectedItems(fields, M)

\* one iteration met a field, a raw unknown entry, a hidden default (not
\* yielded) and an extension
C11_Witness ==
    /\ Returned("iter")
    /\ M = Message
    /\ IsDecoded(fields, number(F3))
    /\ ~has(fields, F3)
    /\ Len(ret.items) = 3
    /\ ret.items[1].tag = "Field"
    /\ ret.items[2].tag = "Unknown"
    /\ ret.items[3].tag = "Extension"

\* C12 as stated: iter(message) panics whenever the store holds a number
\* that is neither a field nor an extension of message.
C12_IterPanicsOnUndeclaredNumber ==
    (call.op = "iter" /\ \E n \in DOMAIN pre : ~Declared(M, n)) => panicked

\* C12 (amended): iter(message) panics whenever the store holds a Decoded
\* entry at a number that is neither a field nor an extension of message; a
\* store whose undeclared numbers hold raw unknown entries only is iterated
\* to the end.
C12_IterPanicsOnUndeclaredDecoded ==
    call.op = "iter"
        => /\ (\E n \in DOMAIN pre : IsDecoded(pre, n) /\ ~Declared(M, n)) => panicked
           /\ (\A n \in DOMAIN pre : ~Declared(M, n) => IsRaw(pre, n)) => ~panicked

\* iter panicked on the decoded extension the old message type lacks, after
\* passing a raw unknown entry at another undeclared number
C12_Witness ==
    /\ call.op = "iter"
    /\ panicked
    /\ M = OldMessage
    /\ IsRaw(pre, number(F3))
    /\ IsDecoded(pre, number(E4))
    /\ Len(ret.items) >= 1

(* ------------------------------- writes -------------------------------- *)

\* the last call neither cleared nor wrote d, nor wrote a member of d's oneof
KeepsValueOf(d) ==
    \/ call.op \in {"new", "has", "get", "iter", "add_unknown"}
    \/ call.op = "clear" /\ call.number # number(d)
    \/ /\ call.op \in {"set", "get_mut"}
       /\ call.number # number(d)
       /\ \A sibling \in Siblings(D) : number(sibling) # number(d)

\* C16: after set(D, v), v valid for D, the entry at D.number() is
\* Decoded(v) and get(D) returns v, whatever the entry was before; a Decoded
\* entry stays as it is over every call that is not clear(D), clear_all, a
\* write to D or a write to another member of D's oneof.
C16_SetStoresValue ==
    /\ (Returned("set") /\ is_valid(D, Unwrap(call.value)))
          => /\ number(D) \in DOMAIN fields
             /\ fields[number(D)] = Value(Unwrap(call.value))
             /\ get(fields, D) = Unwrap(call.value)
    /\ \A d \in Descriptors :
          (IsDecoded(pre, number(d)) /\ KeepsValueOf(d))
              => /\ IsDecoded(fields, number(d))
                 /\ fields[number(d)] = pre[number(d)]
                 /\ get(fields, d) = get(pre, d)

\* set(F3, 1) replaced two raw unknown entries
C16_Witness ==
    /\ Returned("set")
    /\ D = F3
    /\ call.value = Some(I32(1))
    /\ IsRaw(pre, number(F3))
    /\ Len(pre[number(F3)].unknowns) = 2
    /\ get(fields, F3) = I32(1)

\* C17: get_mut(D) returns the slot at D.number(): it holds the Decoded
\* value stored before, unchanged, or D's default when the entry was absent
\* or raw unknown (the raw entries are gone); afterwards no other member of
\* D's oneof has an entry.
C17_GetMutKeepsOrDefaults ==
    call.op = "get_mut"
        => /\ ret.value = IF IsDecoded(pre, number(D)) THEN pre[number(D)].value
                           ELSE Some(default_value(D))
           /\ IsDecoded(fields, number(D))
           /\ fields[number(D)] = Value(Unwrap(ret.value))
           /\ \A sibling \in Siblings(D) : number(sibling) \notin DOMAIN fields

\* get_mut(F1) kept the non-default value of F1 and removed the raw unknown
\* entries of its sibling
C17_Witness ==
    /\ call.op = "get_mut"
    /\ D = F1
    /\ IsDecoded(pre, number(F1))
    /\ ret.value # Some(default_value(F1))
    /\ IsRaw(pre, number(F2))

\* C18: set(F, v) on the store set(F, v) has just produced changes nothing,
\* and the sibling clearing alone leaves that store as it is, F being the
\* only populated member of its oneof.
C18_SetIdempotent ==
    (Returned("set") /\ containing_oneof(D) # {} /\ is_valid(D, Unwrap(call.value)))
        => /\ set(fields, D, Unwrap(call.value)) = fields
           /\ clear_oneof_fields(fields, D) = fields

\* the same set(F, v) ran a second time: the store it found is the store it
\* left
C18_Witness ==
    /\ Returned("set")
    /\ containing_oneof(D) # {}
    /\ is_valid(D, Unwrap(call.value))
    /\ pre = fields
    /\ \A sibling \in Siblings(D) : number(sibling) \notin DOMAIN fields

(* ------------------------------- frame --------------------------------- *)

\* the numbers whose entry the last call created, removed or changed
Changed ==
    {n \in Numbers :
        \/ (n \in DOMAIN pre) # (n \in DOMAIN fields)
        \/ n \in DOMAIN pre /\ n \in DOMAIN fields /\ pre[n] # fields[n]}

\* C19: set(D, v) and get_mut(D) change the entry at D.number() and remove
\* the entries, Decoded or raw unknown, of the other members of D's oneof,
\* nothing else; for an extension or a field outside any oneof only
\* D.number() changes; clear(D) changes D.number() only; add_unknown(n, e)
\* changes n only.
C19_WritesFrame ==
    /\ call.op \in {"set", "get_mut"} =>
          /\ Changed \subseteq {number(D)} \cup {number(d) : d \in Siblings(D)}
          /\ (D.extension \/ D.oneof = None) => Changed \subseteq {number(D)}
          /\ \A d \in Siblings(D) : panicked \/ number(d) \notin DOMAIN fields
    /\ call.op = "clear" => Changed \subseteq {number(D)}
    /\ call.op = "add_unknown" => Changed \subseteq {call.number}

\* set on the extension while both oneof members and F3 held entries
C19_Witness ==
    /\ Returned("set")
    /\ D = E4
    /\ IsDecoded(pre, number(F1))
    /\ IsRaw(pre, number(F2))
    /\ IsDecoded(pre, number(F3))
    /\ Changed = {number(E4)}

(* ------------------------ hidden default entries ----------------------- *)

\* the last call wrote D's default to a number that had no entry
WroteHiddenDefault ==
    /\ ~panicked
    /\ \/ call.op = "get_mut"
       \/ call.op = "set" /\ call.value = Some(default_value(D))
    /\ ~supports_presence(D)
    /\ number(D) \notin DOMAIN pre

\* C20: for an implicit-presence D with default Z, set(D, Z) or get_mut(D)
\* on a store without an entry at D.number() leaves a Decoded entry there
\* while has(D) is false and iter does not yield D; has, get and iter (with a
\* message declaring D) answer as they do after clear(D), yet the two stores
\* differ, and add_unknown(D.number(), e) panics on the one and succeeds on
\* the other.
C20_HiddenDefaultEntry ==
    WroteHiddenDefault
        => LET cleared == clear(fields, D)
           IN  /\ IsDecoded(fields, number(D))
               /\ ~has(fields, D)
               /\ \A d \in Descriptors :
                     has(fields, d) = has(cleared, d) /\ get(fields, d) = get(cleared, d)
               /\ \A message \in {m \in Messages : Declared(m, number(D))} :
                     /\ iter(fields, message) = iter(cleared, message)
                     /\ \A i \in DOMAIN iter(fields, message).items :
                           iter(fields, message).items[i].number # number(D)
               /\ fields # cleared
               /\ \A unknown \in UnknownFields :
                     /\ add_unknown(fields, number(D), unknown).panicked
                     /\ ~add_unknown(cleared, number(D), unknown).panicked

\* get_mut(F3) materialised the default next to other entries
C20_Witness ==
    /\ WroteHiddenDefault
    /\ call.op = "get_mut"
    /\ D = F3
    /\ IsDecoded(fields, number(F1))
    /\ IsRaw(fields, number(E4))

(* --------------------------- type invariant ---------------------------- *)

TypeOK ==
    /\ DOMAIN fields \subseteq Numbers
    /\ \A n \in DOMAIN fields :
          /\ fields[n].tag \in {"Value", "Unknown"}
          /\ IsValue(fields[n]) => fields[n].value \subseteq Values /\ fields[n].value # {}
          /\ IsUnknown(fields[n]) => Len(fields[n].unknowns) >= 1
    /\ panicked \in BOOLEAN

====
